---- MODULE Spec2Model ----
(***************************************************************************)
(* goph-keeper server: the authentication gate, the envelope-encryption    *)
(* engine and the owner-scoped storage handlers, as state machines.        *)
(*                                                                         *)
(* Byte strings are sequences of numbers 0..255; encoded strings (base64,  *)
(* the "*" separator) are sequences of ASCII codes.  The library calls the *)
(* code makes are modelled by what they do:                                *)
(*   - encoding/base64 StdEncoding: the real alphabet, padding and the     *)
(*     non-strict decoder (CR/LF skipped, trailing bits not checked);      *)
(*   - crypto/aes + cipher.NewGCM: a stand-in authenticated cipher with    *)
(*     the interface facts of the real one (key of 16/24/32 bytes, nonce   *)
(*     of 12 bytes or a panic, 16-byte tag, Open fails on a tag mismatch); *)
(*   - golang-jwt HS256: the signature is the pair (secret, claims), the   *)
(*     expiry is a NumericDate compared with the clock;                    *)
(*   - the relational store: a set of rows with a serial id.               *)
(***************************************************************************)
EXTENDS Integers, Sequences, FiniteSets, TLC

VARIABLES
    users,      \* rows of the users table
    records,    \* rows of the storages table
    nextUser,   \* serial of the users table
    nextRecord, \* serial of the storages table
    calls,      \* the WriteRecord calls (one goroutine and one stream each)
    reply,      \* what the step just taken returned to its caller
    now,        \* the server clock, in ticks
    issued,     \* tokens handed out by getJWT and kept by clients
    lab,        \* the crypto engine applied to drawn inputs
    deleted,    \* history: the rows their owners' DeleteRecord calls removed
    agent       \* the agent's WriteFile call: its locals and its stream

vars == <<users, records, nextUser, nextRecord, calls, reply, now, issued, lab, deleted, agent>>

(***************************************************************************)
(* Results of a Go call: a value, an error, or a run-time panic.           *)
(***************************************************************************)
Ok(v) == [st |-> "ok", val |-> v]

Err(msg) == [st |-> "err", val |-> msg]

Panic(msg) == [st |-> "panic", val |-> msg]

(***************************************************************************)
(* Bounds of the model.                                                    *)
(***************************************************************************)
\* longest plaintext handed to the crypto engine on its own
MaxPlain == 2

\* WriteRecord calls over a run
MaxCalls == 1

\* Recv errors one call sees, failures injected over a run
MaxErrs == 2

MaxFaults == 1

(***************************************************************************)
(* Bytes and strings.                                                      *)
(***************************************************************************)
Star == 42

PadChar == 61

\* "1234567812345678", the master key of the test server
testMasterKey == <<49, 50, 51, 52, 53, 54, 55, 56, 49, 50, 51, 52, 53, 54, 55, 56>>

sizeRandomKey == 16

minimumCharMasterKey == 16

GcmNonceSize == 12

GcmTagSize == 16

(***************************************************************************)
(* encoding/base64, StdEncoding.                                           *)
(***************************************************************************)
B64Char(v) ==
    IF v < 26 THEN 65 + v
    ELSE IF v < 52 THEN 97 + (v - 26)
    ELSE IF v < 62 THEN 48 + (v - 52)
    ELSE IF v = 62 THEN 43 ELSE 47

\* the 6-bit value of a character, -1 for a character outside the alphabet
B64Val(c) ==
    IF c >= 65 /\ c <= 90 THEN c - 65
    ELSE IF c >= 97 /\ c <= 122 THEN c - 97 + 26
    ELSE IF c >= 48 /\ c <= 57 THEN c - 48 + 52
    ELSE IF c = 43 THEN 62
    ELSE IF c = 47 THEN 63 ELSE -1

RECURSIVE EncodeToString(_)
EncodeToString(b) ==
    IF Len(b) = 0 THEN <<>>
    ELSE IF Len(b) = 1 THEN
        <<B64Char(b[1] \div 4), B64Char((b[1] % 4) * 16), PadChar, PadChar>>
    ELSE IF Len(b) = 2 THEN
        <<B64Char(b[1] \div 4), B64Char((b[1] % 4) * 16 + (b[2] \div 16)),
          B64Char((b[2] % 16) * 4), PadChar>>
    ELSE
        <<B64Char(b[1] \div 4), B64Char((b[1] % 4) * 16 + (b[2] \div 16)),
          B64Char((b[2] % 16) * 4 + (b[3] \div 64)), B64Char(b[3] % 64)>>
        \o EncodeToString(SubSeq(b, 4, Len(b)))

\* the decoder skips CR and LF wherever they stand
IsNotNewline(c) == c # 10 /\ c # 13

StripNewlines(s) == SelectSeq(s, IsNotNewline)

\* one quantum of four characters at a time; the low bits of the last
\* character of a padded quantum are dropped without a check (not Strict)
RECURSIVE DecodeQuanta(_)
DecodeQuanta(t) ==
    IF Len(t) = 0 THEN Ok(<<>>)
    ELSE IF Len(t) < 4 THEN Err("illegal base64 data")
    ELSE IF B64Val(t[1]) < 0 \/ B64Val(t[2]) < 0 THEN Err("illegal base64 data")
    ELSE IF t[3] = PadChar THEN
        IF t[4] = PadChar /\ Len(t) = 4
        THEN Ok(<<B64Val(t[1]) * 4 + (B64Val(t[2]) \div 16)>>)
        ELSE Err("illegal base64 data")
    ELSE IF B64Val(t[3]) < 0 THEN Err("illegal base64 data")
    ELSE IF t[4] = PadChar THEN
        IF Len(t) = 4
        THEN Ok(<<B64Val(t[1]) * 4 + (B64Val(t[2]) \div 16),
                  (B64Val(t[2]) % 16) * 16 + (B64Val(t[3]) \div 4)>>)
        ELSE Err("illegal base64 data")
    ELSE IF B64Val(t[4]) < 0 THEN Err("illegal base64 data")
    ELSE
        LET rest == DecodeQuanta(SubSeq(t, 5, Len(t)))
        IN  IF rest.st # "ok" THEN rest
            ELSE Ok(<<B64Val(t[1]) * 4 + (B64Val(t[2]) \div 16),
                      (B64Val(t[2]) % 16) * 16 + (B64Val(t[3]) \div 4),
                      (B64Val(t[3]) % 4) * 64 + B64Val(t[4])>> \o rest.val)

DecodeString(s) == DecodeQuanta(StripNewlines(s))

(***************************************************************************)
(* strings.Split(s, "*"): the parts between the separators, one more than  *)
(* there are separators.                                                   *)
(***************************************************************************)
\* the parts of s from position i on, cut at each separator
RECURSIVE SplitFrom(_, _)
SplitFrom(s, i) ==
    LET seps == { j \in i..Len(s) : s[j] = Star }
    IN  IF seps = {} THEN << SubSeq(s, i, Len(s)) >>
        ELSE LET j == CHOOSE k \in seps : \A m \in seps : k <= m
             IN  << SubSeq(s, i, j - 1) >> \o SplitFrom(s, j + 1)

Split(s) == SplitFrom(s, 1)

(***************************************************************************)
(* crypto/aes and cipher.NewGCM.  The stand-in cipher adds a key- and      *)
(* nonce-dependent stream to the plaintext and appends a 16-byte tag that  *)
(* depends on the key, on the nonce and on every ciphertext byte.          *)
(***************************************************************************)
At(s, i) == s[((i - 1) % Len(s)) + 1]

NewCipher(keyBytes) ==
    IF Len(keyBytes) \in {16, 24, 32} THEN Ok(keyBytes)
    ELSE Err("crypto/aes: invalid key size")

KeyStream(k, nonce, i) == (At(k, i) + 7 * At(nonce, i) + i) % 256

\* the ciphertext bytes at positions j, j + 16, j + 32, ... from i on
RECURSIVE TagSum(_, _)
TagSum(ct, i) ==
    IF i > Len(ct) THEN 0
    ELSE (5 * ct[i] + TagSum(ct, i + GcmTagSize)) % 256

GcmTag(k, nonce, ct) ==
    [j \in 1..GcmTagSize |->
        (At(k, j) + 3 * At(nonce, j) + TagSum(ct, j) + Len(ct)) % 256]

\* aesgcm.Seal(nil, nonce, plaintext, nil)
Seal(k, nonce, plaintext) ==
    LET ct == [i \in 1..Len(plaintext) |->
                  (plaintext[i] + KeyStream(k, nonce, i)) % 256]
    IN  ct \o GcmTag(k, nonce, ct)

\* Open without the comparison of the tag
OpenUnchecked(k, nonce, box) ==
    IF Len(nonce) # GcmNonceSize
    THEN Panic("crypto/cipher: incorrect nonce length given to GCM")
    ELSE IF Len(box) < GcmTagSize THEN Err("cipher: message authentication failed")
    ELSE LET n  == Len(box) - GcmTagSize
             ct == SubSeq(box, 1, n)
         IN  Ok([i \in 1..n |-> (ct[i] + 256 - KeyStream(k, nonce, i)) % 256])

\* aesgcm.Open(nil, nonce, ciphertext, nil)
Open(k, nonce, box) ==
    IF Len(nonce) # GcmNonceSize
    THEN Panic("crypto/cipher: incorrect nonce length given to GCM")
    ELSE IF Len(box) < GcmTagSize THEN Err("cipher: message authentication failed")
    ELSE LET n  == Len(box) - GcmTagSize
             ct == SubSeq(box, 1, n)
         IN  IF SubSeq(box, n + 1, Len(box)) # GcmTag(k, nonce, ct)
             THEN Err("cipher: message authentication failed")
             ELSE Ok([i \in 1..n |-> (ct[i] + 256 - KeyStream(k, nonce, i)) % 256])

(***************************************************************************)
(* The crypto engine of the storage handler.                               *)
(***************************************************************************)
adjustKeySize(originalKey, desiredSize) ==
    IF Len(originalKey) > desiredSize
    THEN SubSeq(originalKey, 1, desiredSize)
    ELSE originalKey

\* the random source: the bytes it delivered, or its failure
RandFail == <<>>

generateRandom(size, drawn) ==
    IF drawn = RandFail THEN Err("failed generate byte") ELSE Ok(SubSeq(drawn, 1, size))

\* encrypt(key, plaintext); rnd is what rand.Read delivers for the nonce
encrypt(key, plaintext, rnd) ==
    LET keyBytes == adjustKeySize(key, sizeRandomKey)
        block    == NewCipher(keyBytes)
        nonce    == generateRandom(GcmNonceSize, rnd)
    IN  IF block.st # "ok" THEN Err("failed to create AES cipher")
        ELSE IF nonce.st # "ok" THEN Err("failed to generate random bytes")
        ELSE Ok(EncodeToString(nonce.val) \o <<Star>>
                \o EncodeToString(Seal(keyBytes, nonce.val, plaintext)))

\* decrypt(key, plaintext): the argument is the encoded string; splStr[0] is
\* decoded before splStr[1] is indexed
decrypt(key, encoded) ==
    LET splStr    == Split(encoded)
        decNonce  == DecodeString(splStr[1])
        decString == DecodeString(splStr[2])
        keyBytes  == adjustKeySize(key, sizeRandomKey)
        block     == NewCipher(keyBytes)
    IN  IF decNonce.st # "ok" THEN Err("failed decode base64")
        ELSE IF Len(splStr) < 2 THEN Panic("index out of range [1] with length 1")
        ELSE IF decString.st # "ok" THEN Err("failed decode base64")
        ELSE IF block.st # "ok" THEN Err("failed to create AES cipher")
        ELSE LET dst == Open(keyBytes, decNonce.val, decString.val)
             IN  IF dst.st = "err" THEN Err("failed open decrypts") ELSE dst

\* the three draws of one encryptionData call: the record key and two nonces
Draw(key, nk, nd) == [key |-> key, nk |-> nk, nd |-> nd]

\* encryptionData(mk, data): the pair (encData, encKey) or an error
encryptionData(mk, data, rnd) ==
    LET key == generateRandom(sizeRandomKey, rnd.key)
    IN  IF key.st # "ok" THEN Err("failed to generate random bytes")
        ELSE LET encKey == encrypt(mk, key.val, rnd.nk)
             IN  IF encKey.st # "ok" THEN Err("failed encript key")
                 ELSE LET encData == encrypt(key.val, data, rnd.nd)
                      IN  IF encData.st # "ok" THEN Err("failed encript data")
                          ELSE Ok([data |-> encData.val, key |-> encKey.val])

\* the data opened with the master key instead of the record key
decryptionDataMasterKey(mk, key, data) ==
    LET decKey == decrypt(mk, key)
    IN  IF decKey.st = "panic" THEN decKey
        ELSE IF decKey.st # "ok" THEN Err("failed decrypt key")
        ELSE LET decData == decrypt(mk, data)
             IN  IF decData.st = "panic" THEN decData
                 ELSE IF decData.st # "ok" THEN Err("failed decrypt data")
                 ELSE decData

\* decryptionData(mk, key, data)
decryptionData(mk, key, data) ==
    LET decKey == decrypt(mk, key)
    IN  IF decKey.st = "panic" THEN decKey
        ELSE IF decKey.st # "ok" THEN Err("failed decrypt key")
        ELSE LET decData == decrypt(decKey.val, data)
             IN  IF decData.st = "panic" THEN decData
                 ELSE IF decData.st # "ok" THEN Err("failed decrypt data")
                 ELSE decData

(***************************************************************************)
(* Tokens.  A signed token is its claims and an HS256 signature; the       *)
(* signature is the pair of the secret and the signed claims.  Anything    *)
(* that is not three base64 segments is Garbage.                           *)
(***************************************************************************)
\* the clock counts ticks; a NumericDate holds whole seconds
TicksPerSecond == 2

DefaultSession == 30

SessionTicks == DefaultSession * 60 * TicksPerSecond

testJWTkey == "12345"

Garbage == [kind |-> "garbage"]

Sign(secret, claims) == [by |-> secret, over |-> claims]

\* jwt.NewNumericDate truncates to the second
NewNumericDate(t) == (t \div TicksPerSecond) * TicksPerSecond

JWTclaims(id, login, exp) == [ID |-> id, Login |-> login, ExpiresAt |-> exp]

SignedString(secret, claims) ==
    [kind |-> "jwt", claims |-> claims, sig |-> Sign(secret, claims)]

\* the claims made without the login
getJWTNoLogin(jwtKey, id, login, t) ==
    LET DefaultExpTime == t + SessionTicks
    IN  Ok(SignedString(jwtKey, JWTclaims(id, "", NewNumericDate(DefaultExpTime))))

\* a session twice as long
getJWTLongSession(jwtKey, id, login, t) ==
    LET DefaultExpTime == t + 2 * SessionTicks
    IN  Ok(SignedString(jwtKey, JWTclaims(id, login, NewNumericDate(DefaultExpTime))))

\* getJWT(jwtKey, id, login) called when the clock shows t
getJWT(jwtKey, id, login, t) ==
    LET DefaultExpTime == t + SessionTicks
    IN  Ok(SignedString(jwtKey, JWTclaims(id, login, NewNumericDate(DefaultExpTime))))

\* the parser told to skip the validation of the claims
verifyJWTandGetPayloadNoExpiry(jwtKey, token, t) ==
    IF token.kind # "jwt" THEN Err("token is malformed")
    ELSE IF token.sig # Sign(jwtKey, token.claims) THEN Err("signature is invalid")
    ELSE Ok(token.claims)

\* verifyJWTandGetPayload(jwtKey, token) called when the clock shows t:
\* jwt.ParseWithClaims checks the form, then the signature, then the expiry
verifyJWTandGetPayload(jwtKey, token, t) ==
    IF token.kind # "jwt" THEN Err("token is malformed")
    ELSE IF token.sig # Sign(jwtKey, token.claims) THEN Err("signature is invalid")
    ELSE IF ~(t < token.claims.ExpiresAt) THEN Err("token is expired")
    ELSE Ok(token.claims)

(***************************************************************************)
(* The call context and the gate.                                          *)
(***************************************************************************)
NoMD == [has |-> FALSE]

Authorization(scheme, token) == [has |-> TRUE, scheme |-> scheme, token |-> token]

\* a context without an identity claim, and one carrying pl
Background == [hasToken |-> FALSE]

SetTokenToContext(ctx, pl) == [hasToken |-> TRUE, token |-> pl]

\* GetTokenFromContext(ctx): the pair (claims, ok); the zero claims when absent
ZeroClaims == JWTclaims(0, "", 0)

GetTokenFromContext(ctx) ==
    IF ctx.hasToken THEN [token |-> ctx.token, ok |-> TRUE]
    ELSE [token |-> ZeroClaims, ok |-> FALSE]

\* strings.EqualFold on the scheme names clients send
ToLower(scheme) == IF scheme \in {"Bearer", "BEARER"} THEN "bearer" ELSE scheme

EqualFold(a, b) == ToLower(a) = ToLower(b)

\* auth.AuthFromMD(ctx, "bearer"): the header is cut at its first space; a
\* header without one has the scheme ""
AuthFromMD(md, expectedScheme) ==
    IF ~md.has THEN Err("Unauthenticated")
    ELSE IF md.scheme = "" THEN Err("Unauthenticated")
    ELSE IF ~EqualFold(md.scheme, expectedScheme) THEN Err("Unauthenticated")
    ELSE Ok(md.token)

\* GetAuthenticator(jwtKey)(ctx): the enriched context, or a rejection with
\* its status code; wrapped tells that the status sits inside fmt.Errorf
GetAuthenticator(jwtKey, md, t) ==
    LET token == AuthFromMD(md, "bearer")
    IN  IF token.st # "ok"
        THEN Err([code |-> token.val, wrapped |-> TRUE, cause |-> "AuthFromMD"])
        ELSE LET pl == verifyJWTandGetPayload(jwtKey, token.val, t)
             IN  IF pl.st # "ok"
                 THEN Err([code |-> "Unauthenticated", wrapped |-> FALSE, cause |-> pl.val])
                 ELSE Ok(SetTokenToContext(Background, pl.val))

UserService == "User"

StorageService == "Storage"

\* a matcher that selects no call
AuthMatcherNone(service) == FALSE

\* AuthMatcher(ctx, callMeta): does the gate run for this call
AuthMatcher(service) == UserService # service

\* selector.UnaryServerInterceptor / StreamServerInterceptor around
\* auth.UnaryServerInterceptor / StreamServerInterceptor: the context the
\* handler gets, or the rejection; ran tells whether the gate ran
Intercept(jwtKey, service, md, t) ==
    IF AuthMatcher(service)
    THEN LET newCtx == GetAuthenticator(jwtKey, md, t)
         IN  [ran |-> TRUE, pass |-> newCtx.st = "ok",
              ctx |-> IF newCtx.st = "ok" THEN newCtx.val ELSE Background,
              err |-> IF newCtx.st = "ok" THEN [code |-> "OK"] ELSE newCtx.val]
    ELSE [ran |-> FALSE, pass |-> TRUE, ctx |-> Background, err |-> [code |-> "OK"]]

\* the status the server sends for the error a rejecting gate returned:
\* status.FromError gives the code of a status error; for a status inside
\* fmt.Errorf it gives that code when it unwraps the error (unwraps) and
\* Unknown when it does not
FromError(err, unwraps) ==
    IF err.wrapped /\ ~unwraps THEN "Unknown" ELSE err.code

(***************************************************************************)
(* The repository.  up tells whether the database answers the query; a     *)
(* query that fails touches no row.                                        *)
(***************************************************************************)
Storage(id, name, type, value, key, owner) ==
    [ID |-> id, Name |-> name, Type |-> type, Value |-> value, Key |-> key, Owner |-> owner]

\* the rows of a set in the order of their ids
RECURSIVE ById(_)
ById(rows) ==
    IF rows = {} THEN <<>>
    ELSE LET first == CHOOSE r \in rows : \A q \in rows : r.ID <= q.ID
         IN  <<first>> \o ById(rows \ {first})

\* a Find that reports an error when no row matches
DBReadAllRecordNotFound(rows, owner, up) ==
    LET found == IF up THEN {r \in rows : r.Owner = owner} ELSE {}
    IN  IF found = {} THEN [docs |-> <<>>, isNil |-> TRUE, err |-> TRUE]
        ELSE [docs |-> ById({Storage(r.ID, r.Name, "", <<>>, <<>>, r.Owner) : r \in found}),
              isNil |-> FALSE, err |-> FALSE]

\* DB.ReadAllRecord(owner): Select("id", "name", "owner").Find(owner = ?)
DBReadAllRecord(rows, owner, up) ==
    LET found == IF up THEN {r \in rows : r.Owner = owner} ELSE {}
        RowsAffected == Cardinality(found)
    IN  IF RowsAffected = 0 THEN [docs |-> <<>>, isNil |-> TRUE, err |-> FALSE]
        ELSE IF ~up THEN [docs |-> <<>>, isNil |-> TRUE, err |-> TRUE]
        ELSE [docs |-> ById({Storage(r.ID, r.Name, "", <<>>, <<>>, r.Owner) : r \in found}),
              isNil |-> FALSE, err |-> FALSE]

\* First(id = ?) alone: the owner is not part of the query
DBReadRecordAnyOwner(rows, id, owner, up) ==
    LET found == IF up THEN {r \in rows : r.ID = id} ELSE {}
        RowsAffected == Cardinality(found)
    IN  IF RowsAffected = 0 THEN [isNil |-> TRUE, err |-> FALSE]
        ELSE IF ~up THEN [isNil |-> TRUE, err |-> TRUE]
        ELSE [isNil |-> FALSE, err |-> FALSE, doc |-> CHOOSE r \in found : TRUE]

\* DB.ReadRecord(id, owner): First(id = ? AND owner = ?)
DBReadRecord(rows, id, owner, up) ==
    LET found == IF up THEN {r \in rows : r.ID = id /\ r.Owner = owner} ELSE {}
        RowsAffected == Cardinality(found)
    IN  IF RowsAffected = 0 THEN [isNil |-> TRUE, err |-> FALSE]
        ELSE IF ~up THEN [isNil |-> TRUE, err |-> TRUE]
        ELSE [isNil |-> FALSE, err |-> FALSE, doc |-> CHOOSE r \in found : TRUE]

\* DB.WriteRecord(doc): Create; the table gives the row its id
DBWriteRecord(rows, serial, doc, up) ==
    IF ~up THEN [rows |-> rows, serial |-> serial, err |-> TRUE]
    ELSE [rows |-> rows \cup {[doc EXCEPT !.ID = serial]}, serial |-> serial + 1, err |-> FALSE]

\* a Delete that reports success and removes no row
DBDeleteRecordNone(rows, id, owner, up) ==
    IF ~up THEN [rows |-> rows, err |-> TRUE]
    ELSE [rows |-> rows, err |-> FALSE]

\* Delete(id = ?) alone: the owner is not part of the query
DBDeleteRecordAnyOwner(rows, id, owner, up) ==
    IF ~up THEN [rows |-> rows, err |-> TRUE]
    ELSE [rows |-> {r \in rows : r.ID # id}, err |-> FALSE]

\* DB.DeleteRecord(id, owner): Delete(id = ? AND owner = ?)
DBDeleteRecord(rows, id, owner, up) ==
    IF ~up THEN [rows |-> rows, err |-> TRUE]
    ELSE [rows |-> {r \in rows : ~(r.ID = id /\ r.Owner = owner)}, err |-> FALSE]

(***************************************************************************)
(* The unary storage handlers.  Each gives the response and the transport  *)
(* error it returns; a panic of the handler's goroutine is its own result. *)
(***************************************************************************)
errorInvalidToken == "invalid token"

MasterKey == testMasterKey

StorageUnit(v) == [Id |-> v.ID, Name |-> v.Name, Type |-> v.Type, Owner |-> v.Owner]

\* StorageHandler.ReadAllRecord
ReadAllRecord(ctx, rows, up) ==
    LET t == GetTokenFromContext(ctx)
    IN  IF ~t.ok THEN Ok([Error |-> errorInvalidToken, Units |-> <<>>])
        ELSE LET rec == DBReadAllRecord(rows, t.token.ID, up)
             IN  IF rec.err THEN Ok([Error |-> "failed get all records", Units |-> <<>>])
                 ELSE Ok([Error |-> "",
                          Units |-> [i \in 1..Len(rec.docs) |-> StorageUnit(rec.docs[i])]])

ReadRecordResponse(error, name, type, data) ==
    [Error |-> error, Name |-> name, Type |-> type, Data |-> data]

\* StorageHandler.ReadRecord
ReadRecord(ctx, id, rows, up) ==
    LET t == GetTokenFromContext(ctx)
    IN  IF ~t.ok THEN Ok(ReadRecordResponse(errorInvalidToken, "", "", <<>>))
        ELSE LET rec == DBReadRecord(rows, id, t.token.ID, up)
             IN  IF rec.err THEN Ok(ReadRecordResponse("failed read record", "", "", <<>>))
                 ELSE IF rec.isNil THEN Ok(ReadRecordResponse("record not found", "", "", <<>>))
                 ELSE LET data == decryptionData(MasterKey, rec.doc.Key, rec.doc.Value)
                      IN  IF data.st = "panic" THEN data
                          ELSE IF data.st # "ok"
                          THEN Ok(ReadRecordResponse("failed decrypt data", "", "", <<>>))
                          ELSE Ok(ReadRecordResponse("", rec.doc.Name, rec.doc.Type, data.val))

\* StorageHandler.DeleteRecord: the response and the rows left
DeleteRecord(ctx, id, rows, up) ==
    LET t == GetTokenFromContext(ctx)
    IN  IF ~t.ok THEN [resp |-> Ok([Error |-> errorInvalidToken]), rows |-> rows]
        ELSE LET del == DBDeleteRecord(rows, id, t.token.ID, up)
             IN  IF del.err THEN [resp |-> Ok([Error |-> "failed delete record"]), rows |-> rows]
                 ELSE [resp |-> Ok([Error |-> ""]), rows |-> del.rows]

(***************************************************************************)
(* The user repository and the handlers of the User service.               *)
(***************************************************************************)
User(id, login, hash) == [ID |-> id, Login |-> login, Hash |-> hash]

\* bcrypt.GenerateFromPassword and CompareHashAndPassword: a hash matches
\* the password it was made from and no other
GenerateFromPassword(password) == Ok([of |-> password])

\* a comparison that accepts every password
CompareHashAndPasswordAny(hash, password) == TRUE

CompareHashAndPassword(hash, password) == hash = [of |-> password]

\* DB.FindUserByLogin(login): First(login = ?)
DBFindUserByLogin(rows, login, up) ==
    LET found == IF up THEN {u \in rows : u.Login = login} ELSE {}
        RowsAffected == Cardinality(found)
    IN  IF RowsAffected = 0 THEN [isNil |-> TRUE, err |-> FALSE]
        ELSE IF ~up THEN [isNil |-> TRUE, err |-> TRUE]
        ELSE [isNil |-> FALSE, err |-> FALSE, user |-> CHOOSE u \in found : TRUE]

\* the users table has a unique index on login: does a new row break it
UniqueViolation(rows, login) == \E u \in rows : u.Login = login

\* Create on a table without the index on login
DBCreateUserNoIndex(rows, serial, login, hash, up) ==
    IF ~up THEN [rows |-> rows, serial |-> serial, err |-> "connection"]
    ELSE [rows |-> rows \cup {User(serial, login, hash)}, serial |-> serial + 1,
          err |-> "", user |-> User(serial, login, hash)]

\* DB.CreateUser(login, hash): Create; the table gives the row its id and
\* refuses a login it holds already
DBCreateUser(rows, serial, login, hash, up) ==
    IF ~up THEN [rows |-> rows, serial |-> serial, err |-> "connection"]
    ELSE IF UniqueViolation(rows, login)
    THEN [rows |-> rows, serial |-> serial, err |-> "UniqueViolation"]
    ELSE [rows |-> rows \cup {User(serial, login, hash)}, serial |-> serial + 1,
          err |-> "", user |-> User(serial, login, hash)]

\* a response of the User service; for is the user the token was made for
UserResponse(error, jwt, for) == [Error |-> error, Jwt |-> jwt, for |-> for]

NoJwt == [kind |-> "none"]

NoUser == User(0, "", [of |-> ""])

\* UserHandler.Register, called when the clock shows t
Register(login, password, rows, serial, up, t) ==
    IF login = "" \/ password = ""
    THEN [resp |-> UserResponse("login or password incorrect", NoJwt, NoUser),
          rows |-> rows, serial |-> serial]
    ELSE LET hash    == GenerateFromPassword(password)
             created == DBCreateUser(rows, serial, login, hash.val, up)
         IN  IF created.err # ""
             THEN [resp |-> UserResponse(IF created.err = "UniqueViolation"
                                         THEN "this user exists" ELSE "failed create user",
                                         NoJwt, NoUser),
                   rows |-> rows, serial |-> serial]
             ELSE [resp |-> UserResponse("", getJWT(testJWTkey, created.user.ID,
                                                    created.user.Login, t).val, created.user),
                   rows |-> created.rows, serial |-> created.serial]

\* UserHandler.Login, called when the clock shows t
Login(login, password, rows, up, t) ==
    LET found == DBFindUserByLogin(rows, login, up)
    IN  IF found.err THEN UserResponse("failed get user", NoJwt, NoUser)
        ELSE IF found.isNil THEN UserResponse("user not found", NoJwt, NoUser)
        ELSE IF ~CompareHashAndPassword(found.user.Hash, password)
        THEN UserResponse("login or password incorrect", NoJwt, NoUser)
        ELSE UserResponse("", getJWT(testJWTkey, found.user.ID, found.user.Login, t).val,
                          found.user)

(***************************************************************************)
(* StorageHandler.WriteRecord, one step per blocking stream operation.     *)
(* A call is the handler's local variables plus what its stream has done:  *)
(*   pc        "recv" (in the loop, about to call Recv) or "returned"      *)
(*   ret       the transport error returned: "none" yet, "nil" or "error"  *)
(*   sends     SendAndClose calls made so far                              *)
(*   nerr      Recv calls that returned an error other than io.EOF         *)
(*   broken    the stream is cancelled or lost: every Recv now errs        *)
(*   got       the chunks Recv delivered, in order                         *)
(*   wrote     the id of the row the call created, 0 when none             *)
(*   faults    failures the environment injected into this call            *)
(***************************************************************************)
Chunk(name, type, data) == [Name |-> name, Type |-> type, Data |-> data]

\* (*WriteRecordRequest)(nil): the getters of a nil message give zero values
NilChunk == Chunk("", "", <<>>)

\* stream.SendAndClose(&resp): one more response sent; sendOK is its result
SendAndClose(call, sendOK) ==
    IF sendOK THEN [call EXCEPT !.sends = @ + 1]
    ELSE [call EXCEPT !.sends = @ + 1, !.pc = "returned", !.ret = "error"]

\* lines 110-127: the locals, the identity claim, the reply when it is absent
WriteRecordEnter(ctx, verified, sendOK) ==
    LET t    == GetTokenFromContext(ctx)
        call == [pc |-> "recv", ret |-> "none", token |-> t.token, hasToken |-> t.ok,
                 fileName |-> "", fileType |-> "", buffer |-> <<>>, respError |-> "",
                 sends |-> 0, nerr |-> 0, broken |-> FALSE,
                 got |-> <<>>, verified |-> verified, wrote |-> 0, faults |-> 0]
    IN  IF ~t.ok
        THEN SendAndClose([call EXCEPT !.respError = errorInvalidToken], sendOK)
        ELSE call

\* the loop body with the buffer reset to the latest chunk
WriteRecordChunkLast(call, chunk) ==
    [call EXCEPT !.fileName = IF @ = "" THEN chunk.Name ELSE @,
                 !.fileType = IF @ = "" THEN chunk.Type ELSE @,
                 !.buffer   = chunk.Data]

\* the loop body that takes the name and the kind of the latest chunk that
\* has one
WriteRecordChunkRename(call, chunk) ==
    [call EXCEPT !.fileName = IF chunk.Name # "" THEN chunk.Name ELSE @,
                 !.fileType = IF chunk.Type # "" THEN chunk.Type ELSE @,
                 !.buffer   = @ \o chunk.Data]

\* lines 144-162: the body of the loop for the message Recv returned
WriteRecordChunk(call, chunk) ==
    [call EXCEPT !.fileName = IF @ = "" THEN chunk.Name ELSE @,
                 !.fileType = IF @ = "" THEN chunk.Type ELSE @,
                 !.buffer   = @ \o chunk.Data]

\* lines 134-142 and on: Recv returned an error that is not io.EOF
WriteRecordRecvError(call, sendOK) ==
    LET sent == SendAndClose([call EXCEPT !.respError = "failed recive chunk"], sendOK)
    IN  IF sent.pc = "returned" THEN sent
        ELSE WriteRecordChunk(sent, NilChunk)

\* line 166: the buffer encrypted; rnd are the random draws
WriteRecordEncrypt(call, rnd) == encryptionData(MasterKey, call.buffer, rnd)

\* lines 167-205: after the loop, given what encryptionData returned; up is
\* the database, failing the number of the SendAndClose call that fails
\* (0: none does)
WriteRecordFinish(call, rows, serial, enc, up, failing) ==
    LET c1    == IF enc.st # "ok"
                 THEN SendAndClose([call EXCEPT !.respError = "failed encrypt data"],
                                   failing # call.sends + 1)
                 ELSE call
        data  == IF enc.st = "ok" THEN enc.val.data ELSE <<>>
        key   == IF enc.st = "ok" THEN enc.val.key ELSE <<>>
        unit  == Storage(0, c1.fileName, c1.fileType, data, key, c1.token.ID)
        db    == DBWriteRecord(rows, serial, unit, up)
        c2    == IF c1.pc = "returned" THEN c1
                 ELSE IF db.err
                 THEN SendAndClose([c1 EXCEPT !.respError = "failed write record"],
                                   failing # c1.sends + 1)
                 ELSE [c1 EXCEPT !.wrote = serial]
        c3    == IF c2.pc = "returned" THEN c2
                 ELSE LET sent == SendAndClose(c2, failing # c2.sends + 1)
                      IN  IF sent.pc = "returned" THEN sent
                          ELSE [sent EXCEPT !.pc = "returned", !.ret = "nil"]
    IN  [call   |-> c3,
         rows   |-> IF c1.pc = "returned" THEN rows ELSE db.rows,
         serial |-> IF c1.pc = "returned" THEN serial ELSE db.serial,
         failed |-> (IF enc.st # "ok" THEN 1 ELSE 0)
                    + (IF c1.pc # "returned" /\ db.err THEN 1 ELSE 0)
                    + (IF c3.ret = "error" THEN 1 ELSE 0)]

(***************************************************************************)
(* The server as wired in testServer: every call passes the selector and,  *)
(* when AuthMatcher says so, the authenticator, before its handler.        *)
(***************************************************************************)
\* the credential is a bearer token that verifies under the server's secret
Verified(md, t) ==
    /\ md.has
    /\ ToLower(md.scheme) = "bearer"
    /\ verifyJWTandGetPayload(testJWTkey, md.token, t).st = "ok"

NoReply == [op |-> "none"]

NoOutput == [st |-> "none"]

\* a stream handler that has started and waits in Recv
Streaming == [st |-> "open"]

\* what a call returned: the gate's verdict and the handler's result; out is
\* NoOutput when the handler did not start
Reply(service, method, md, g, id, out) ==
    [op |-> "call", service |-> service, method |-> method, md |-> md,
     gateRan |-> g.ran, verified |-> Verified(md, now), handler |-> out # NoOutput,
     status |-> g.err, who |-> GetTokenFromContext(g.ctx), id |-> id, out |-> out]

\* tokens two clients hold while the clock stands at 0
Alice == getJWT(testJWTkey, 1, "alice", 0).val

Bob == getJWT(testJWTkey, 2, "bob", 0).val

\* the credentials of the clients of the store: none, and the two tokens
StoreCreds == { NoMD, Authorization("bearer", Alice), Authorization("bearer", Bob) }

\* the uploads clients stream: two chunks that repeat the upload's name and
\* kind, and one whose first chunk leaves the name empty and names another
\* kind; a client may close or lose the stream after any prefix
Uploads ==
    { << Chunk("n", "text", <<97, 98>>), Chunk("n", "text", <<99>>) >>,
      << Chunk("", "file", <<100>>), Chunk("n", "text", <<97, 98>>) >> }

\* chunk extends what the call has received to a prefix of an upload
Streams(got, chunk) ==
    \E u \in Uploads :
       /\ Len(got) < Len(u)
       /\ SubSeq(u, 1, Len(got) + 1) = Append(got, chunk)

Chunks == { u[i] : u \in Uploads, i \in 1..2 }

\* what rand.Read delivers to the handler
GoodDraw ==
    Draw([i \in 1..16 |-> (17 * i) % 256], [i \in 1..12 |-> (5 * i + 200) % 256],
         [i \in 1..12 |-> (247 + 2 * i) % 256])

StoreDraws == { GoodDraw, Draw(RandFail, RandFail, RandFail) }

\* the rows an earlier run of the server left in the database: one upload
\* of the second client
SeedRows ==
    LET ctx  == Intercept(testJWTkey, StorageService, Authorization("bearer", Bob), 0).ctx
        call == WriteRecordChunk(WriteRecordEnter(ctx, TRUE, TRUE), Chunk("n", "text", <<101>>))
    IN  WriteRecordFinish(call, {}, 1, WriteRecordEncrypt(call, GoodDraw), TRUE, 0).rows

\* the ids clients ask for: those of the rows, and one that names no row
RecordIds == { r.ID : r \in records } \cup { nextRecord }

RECURSIVE SumOver(_, _)
SumOver(cs, i) ==
    IF i > Len(cs) THEN 0 ELSE cs[i].faults + SumOver(cs, i + 1)

\* failures injected so far, over all calls
Faults == SumOver(calls, 1)

\* the reply is recorded where the client is watched; a watched client waits
\* for the reply before its next call
Watch(watch, r) == IF watch THEN r ELSE NoReply

CallReadAllRecord(C, watch) ==
    /\ reply = NoReply
    /\ \E md \in C, up \in BOOLEAN :
          LET g == Intercept(testJWTkey, StorageService, md, now)
          IN  reply' = Watch(watch, Reply(StorageService, "ReadAllRecord", md, g, 0,
                             IF g.pass THEN ReadAllRecord(g.ctx, records, up) ELSE NoOutput))
    /\ UNCHANGED <<users, records, nextUser, nextRecord, calls, now, issued, lab, deleted, agent>>

CallReadRecord(C, watch) ==
    /\ reply = NoReply
    /\ \E md \in C, id \in RecordIds, up \in BOOLEAN :
          LET g == Intercept(testJWTkey, StorageService, md, now)
          IN  reply' = Watch(watch, Reply(StorageService, "ReadRecord", md, g, id,
                             IF g.pass THEN ReadRecord(g.ctx, id, records, up) ELSE NoOutput))
    /\ UNCHANGED <<users, records, nextUser, nextRecord, calls, now, issued, lab, deleted, agent>>

CallDeleteRecord(C, watch) ==
    /\ reply = NoReply
    /\ \E md \in C, id \in RecordIds, up \in BOOLEAN :
          LET g   == Intercept(testJWTkey, StorageService, md, now)
              del == DeleteRecord(g.ctx, id, records, up)
          IN  /\ reply' = Watch(watch, Reply(StorageService, "DeleteRecord", md, g, id,
                                IF g.pass THEN del.resp ELSE NoOutput))
              /\ records' = IF g.pass THEN del.rows ELSE records
              /\ deleted' = IF g.pass /\ del.resp.val.Error = ""
                            THEN deleted \cup { [ID |-> r.ID, Owner |-> r.Owner] :
                                      r \in { q \in records :
                                                 /\ q.ID = id
                                                 /\ q.Owner = GetTokenFromContext(g.ctx).token.ID } }
                            ELSE deleted
    /\ UNCHANGED <<users, nextUser, nextRecord, calls, now, issued, lab, agent>>

\* a client opens a WriteRecord stream; the handler runs up to its first Recv.
\* Uploads are served one after another: a call touches the rows only in
\* the step that follows io.EOF.
CallWriteRecord(C, watch) ==
    /\ reply = NoReply
    /\ Len(calls) < MaxCalls
    /\ \A c \in 1..Len(calls) : calls[c].pc = "returned"
    /\ \E md \in C, sendOK \in BOOLEAN :
          LET g == Intercept(testJWTkey, StorageService, md, now)
          IN  /\ reply' = Watch(watch, Reply(StorageService, "WriteRecord", md, g, 0,
                                IF g.pass THEN Streaming ELSE NoOutput))
              /\ calls' = IF g.pass
                          THEN Append(calls, WriteRecordEnter(g.ctx, Verified(md, now), sendOK))
                          ELSE calls
    /\ UNCHANGED <<users, records, nextUser, nextRecord, now, issued, lab, deleted, agent>>

\* the loop body of handlers that share one buffer: the chunk of call c
\* lands in the buffer of every call in the loop
RecvChunkShared(c) ==
    /\ calls[c].pc = "recv" /\ ~calls[c].broken
    /\ \E chunk \in Chunks :
          /\ Streams(calls[c].got, chunk)
          /\ calls' = [d \in 1..Len(calls) |->
                          IF d = c
                          THEN WriteRecordChunk([calls[d] EXCEPT !.got = Append(@, chunk)], chunk)
                          ELSE IF calls[d].pc = "recv"
                          THEN [calls[d] EXCEPT !.buffer = @ \o chunk.Data]
                          ELSE calls[d]]
    /\ UNCHANGED <<users, records, nextUser, nextRecord, reply, now, issued, lab, deleted, agent>>

\* one Recv of call c and what the handler does with its result, up to the
\* next Recv or to the return
RecvChunk(c) ==
    /\ calls[c].pc = "recv" /\ ~calls[c].broken
    /\ \E chunk \in Chunks :
          /\ Streams(calls[c].got, chunk)
          /\ calls' = [calls EXCEPT ![c] = WriteRecordChunk([@ EXCEPT !.got = Append(@, chunk)], chunk)]
    /\ UNCHANGED <<users, records, nextUser, nextRecord, reply, now, issued, lab, deleted, agent>>

\* Recv returns an error that is not io.EOF: one message fails on a stream
\* that lives on, or the stream is cancelled or lost (broken) and every
\* later Recv fails too; SendAndClose may then succeed or fail
RecvError(c) ==
    /\ calls[c].pc = "recv" /\ calls[c].nerr < MaxErrs
    /\ calls[c].broken \/ Faults < MaxFaults
    /\ \E sendOK \in BOOLEAN, lost \in BOOLEAN :
          calls' = [calls EXCEPT ![c] =
                       WriteRecordRecvError([@ EXCEPT !.nerr = @ + 1,
                                                      !.broken = @ \/ lost,
                                                      !.faults = IF calls[c].broken THEN @ ELSE @ + 1],
                                            sendOK)]
    /\ UNCHANGED <<users, records, nextUser, nextRecord, reply, now, issued, lab, deleted, agent>>

\* the client has closed the stream: Recv returns io.EOF
RecvEOF(c) ==
    /\ calls[c].pc = "recv" /\ ~calls[c].broken
    /\ \E rnd \in StoreDraws :
          LET enc == WriteRecordEncrypt(calls[c], rnd)
          IN  \E up \in BOOLEAN, failing \in 0..3 :
                 LET fin == WriteRecordFinish(calls[c], records, nextRecord, enc, up, failing)
                 IN  /\ failing <= fin.call.sends
                     /\ Faults + fin.failed <= MaxFaults
                     /\ calls' = [calls EXCEPT ![c] = [fin.call EXCEPT !.faults = @ + fin.failed]]
                     /\ records' = fin.rows
                     /\ nextRecord' = fin.serial
    /\ UNCHANGED <<users, nextUser, reply, now, issued, lab, deleted, agent>>

\* the server starts on an empty database or on one an earlier run filled
Init ==
    /\ users = {} /\ nextUser = 1
    /\ \/ records = {} /\ nextRecord = 1
       \/ records = SeedRows /\ nextRecord = 2
    /\ calls = <<>> /\ reply = NoReply /\ now = 0 /\ issued = {}
    /\ lab = [stage |-> "idle"]
    /\ deleted = {}
    /\ agent = [pc |-> "idle"]

Next ==
    \/ CallDeleteRecord(StoreCreds, FALSE)
    \/ CallWriteRecord(StoreCreds, FALSE)
    \/ \E c \in 1..Len(calls) : RecvChunk(c)
    \/ \E c \in 1..Len(calls) : RecvError(c)
    \/ \E c \in 1..Len(calls) : RecvEOF(c)

Spec == Init /\ [][Next]_vars

(***************************************************************************)
(* Properties of the storage service.                                      *)
(***************************************************************************)
\* the contexts the gate hands to handlers for the credentials it accepts
Callers ==
    { Intercept(testJWTkey, StorageService, md, now).ctx :
        md \in { m \in StoreCreds : Intercept(testJWTkey, StorageService, m, now).pass } }

\* the context of the caller of a WriteRecord call
CallerOf(call) == SetTokenToContext(Background, call.token)

RECURSIVE ConcatData(_)
ConcatData(chunks) ==
    IF chunks = <<>> THEN <<>> ELSE Head(chunks).Data \o ConcatData(Tail(chunks))

\* the call returned nil after one response without an error, and its row
\* is still stored
Succeeded(call) ==
    /\ call.pc = "returned" /\ call.ret = "nil" /\ call.respError = ""
    /\ call.wrote # 0
    /\ \E r \in records : r.ID = call.wrote

\* C1: ownership isolation.  Whatever writes and deletes have happened, a
\* user who does not own a stored record gets from ReadRecord on its id the
\* very response an id that was never assigned gets, which is "record not
\* found" with no name, kind or data, and ReadAllRecord lists for that user
\* no unit with that id and only units the user owns.
OwnershipIsolation ==
    \A ctx \in Callers, up \in BOOLEAN :
       LET all == ReadAllRecord(ctx, records, up).val.Units
       IN  /\ \A i \in 1..Len(all) : all[i].Owner = ctx.token.ID
           /\ \A r \in records :
                 r.Owner # ctx.token.ID =>
                    /\ ReadRecord(ctx, r.ID, records, up) = ReadRecord(ctx, nextRecord, records, up)
                    /\ ReadRecord(ctx, r.ID, records, up)
                          = Ok(ReadRecordResponse("record not found", "", "", <<>>))
                    /\ \A i \in 1..Len(all) : all[i].Id # r.ID

\* a record one user wrote in this run is stored, and a second user who owns
\* a record too reads the first one's id and lists
OwnershipIsolationWitness ==
    \E c \in 1..Len(calls), ctx \in Callers :
       /\ Succeeded(calls[c])
       /\ ctx.token.ID # calls[c].token.ID
       /\ \E q \in records : q.Owner = ctx.token.ID
       /\ ReadRecord(ctx, calls[c].wrote, records, TRUE).val.Error = "record not found"
       /\ Len(ReadAllRecord(ctx, records, TRUE).val.Units) = 1

\* C8: read-after-write.  After a WriteRecord of chunks c1..cn (n >= 1) has
\* succeeded, ReadRecord of the new id by the same owner returns without an
\* error the data c1 ++ ... ++ cn in the order received and, when every
\* chunk carried name N and kind K, name N and kind K.
ReadAfterWrite ==
    \A c \in 1..Len(calls) :
       LET call == calls[c]
           got  == ReadRecord(CallerOf(call), call.wrote, records, TRUE)
       IN  (Succeeded(call) /\ Len(call.got) >= 1) =>
              /\ got.st = "ok"
              /\ got.val.Error = ""
              /\ got.val.Data = ConcatData(call.got)
              /\ (\A i \in 1..Len(call.got) :
                     /\ call.got[i].Name = call.got[1].Name
                     /\ call.got[i].Type = call.got[1].Type)
                 => /\ got.val.Name = call.got[1].Name
                    /\ got.val.Type = call.got[1].Type

\* an upload of two different chunks of one name and kind has succeeded and
\* is read back
ReadAfterWriteWitness ==
    \E c \in 1..Len(calls) :
       /\ Succeeded(calls[c])
       /\ Len(calls[c].got) = 2
       /\ calls[c].got[1].Data # calls[c].got[2].Data
       /\ calls[c].got[1].Name = calls[c].got[2].Name
       /\ calls[c].got[1].Name # ""
       /\ ReadRecord(CallerOf(calls[c]), calls[c].wrote, records, TRUE).val.Data
             = calls[c].got[1].Data \o calls[c].got[2].Data

\* C9: a WriteRecord call that has returned has called SendAndClose exactly
\* once, whichever stage failed or succeeded.
SendAndCloseOnce ==
    \A c \in 1..Len(calls) : calls[c].pc = "returned" => calls[c].sends = 1

\* C10: abandoned stream.  Once Recv has returned an error other than io.EOF
\* to a call that had received a chunk, the handler has returned rather
\* than called Recv again, it has created no row, and ReadAllRecord for the
\* owner lists no row of that call.
AbandonedStreamStops ==
    \A c \in 1..Len(calls) :
       (Len(calls[c].got) >= 1 /\ calls[c].nerr >= 1) =>
          /\ calls[c].pc = "returned"
          /\ calls[c].wrote = 0
          /\ LET all == ReadAllRecord(CallerOf(calls[c]), records, TRUE).val.Units
             IN  \A i \in 1..Len(all) : all[i].Id # calls[c].wrote

(***************************************************************************)
(* The gate seen from its clients: users register and log in, keep the     *)
(* tokens they are sent, and call the storage service with them, or with   *)
(* what can be made of them without the server's secret, while the clock   *)
(* advances.                                                               *)
(***************************************************************************)
\* tokens one run's clients keep
MaxIssued == 1

\* users one run registers
MaxUsers == 1

\* the instants at which the clock is read: around the start and around
\* the end of a session that started then
Instants == {0, 1, SessionTicks - 1, SessionTicks, SessionTicks + 1}

Logins == {"alice", "bob"}

\* what can be presented for a token without the server's secret
Forge(t) ==
    { Authorization("bearer", t),
      Authorization("Bearer", t),
      Authorization("basic", t),
      Authorization("bearer", SignedString("54321", t.claims)),
      Authorization("bearer", [t EXCEPT !.claims.ID = @ + 1]) }

\* the credentials clients present: none, a header without a scheme, no
\* token, and those made of the tokens they keep
AuthCreds ==
    { NoMD, Authorization("", Garbage), Authorization("bearer", Garbage) }
       \cup UNION { Forge(i.token) : i \in issued }

Tick ==
    /\ reply = NoReply
    /\ \E t \in Instants : t > now /\ now' = t
    /\ UNCHANGED <<users, records, nextUser, nextRecord, calls, reply, issued, lab, deleted, agent>>

CallRegister ==
    /\ reply = NoReply
    /\ \E login \in Logins, password \in {"pw", ""}, up \in BOOLEAN, md \in AuthCreds :
          LET g   == Intercept(testJWTkey, UserService, md, now)
              reg == Register(login, password, users, nextUser, up, now)
          IN  /\ Cardinality(users) < MaxUsers \/ UniqueViolation(users, login)
              /\ reply' = Reply(UserService, "Register", md, g, 0,
                                IF g.pass THEN Ok(reg.resp) ELSE NoOutput)
              /\ users' = IF g.pass THEN reg.rows ELSE users
              /\ nextUser' = IF g.pass THEN reg.serial ELSE nextUser
    /\ UNCHANGED <<records, nextRecord, calls, now, issued, lab, deleted, agent>>

CallLogin ==
    /\ reply = NoReply
    /\ \E login \in Logins, password \in {"pw", "bad"}, up \in BOOLEAN, md \in AuthCreds :
          LET g == Intercept(testJWTkey, UserService, md, now)
          IN  reply' = Reply(UserService, "Login", md, g, 0,
                             IF g.pass THEN Ok(Login(login, password, users, up, now))
                             ELSE NoOutput)
    /\ UNCHANGED <<users, records, nextUser, nextRecord, calls, now, issued, lab, deleted, agent>>

\* the client takes the reply and keeps the token it brings, if any; the
\* clock has not moved since the handler made the token
ClientReceive ==
    /\ reply # NoReply
    /\ reply' = NoReply
    /\ issued' = IF /\ reply.service = UserService /\ reply.out.st = "ok"
                    /\ reply.out.val.Jwt # NoJwt
                    /\ Cardinality(issued) < MaxIssued
                 THEN issued \cup {[token |-> reply.out.val.Jwt,
                                    id |-> reply.out.val.for.ID,
                                    login |-> reply.out.val.for.Login,
                                    at |-> now]}
                 ELSE issued
    /\ UNCHANGED <<users, records, nextUser, nextRecord, calls, now, lab, deleted, agent>>

NextAuth ==
    \/ Tick
    \/ CallRegister
    \/ CallLogin
    \/ CallReadAllRecord(AuthCreds, TRUE)
    \/ CallReadRecord(AuthCreds, TRUE)
    \/ CallDeleteRecord(AuthCreds, TRUE)
    \/ CallWriteRecord(AuthCreds, TRUE)
    \/ ClientReceive

SpecAuth == Init /\ [][NextAuth]_vars

(***************************************************************************)
(* Properties of the gate.                                                 *)
(***************************************************************************)
\* the token a reply's call presented, Garbage when it presented none
Presented == IF reply.md.has THEN reply.md.token ELSE Garbage

\* C2: the gate runs for every call to a service other than User and for no
\* call to Register or Login, whose handlers start whatever is presented;
\* the body of a storage handler has started only for calls whose bearer
\* token verified under the server's secret at the time of the call and is
\* one the server issued, and every open WriteRecord call is such a call.
GateBeforeHandler ==
    /\ \A c \in 1..Len(calls) : calls[c].verified /\ calls[c].hasToken
    /\ reply # NoReply =>
          /\ reply.gateRan = (reply.service # UserService)
          /\ reply.service = UserService => reply.handler
          /\ (reply.service # UserService /\ reply.handler) =>
                /\ reply.verified
                /\ \E i \in issued : i.token = Presented

\* a WriteRecord handler has started for a verified call, and a storage
\* call that presented a token made without the secret was stopped by the
\* gate
GateBeforeHandlerWitness ==
    /\ Len(calls) = 1
    /\ reply # NoReply
    /\ reply.service = StorageService
    /\ reply.gateRan /\ ~reply.handler
    /\ Presented.kind = "jwt"

\* C6: token rejection.  For a presented token that was signed with another
\* secret than the server's, or whose expiry lies in the past though the
\* secret is the server's, verifyJWTandGetPayload returns an error,
\* GetAuthenticator attaches no identity, and the handler does not start.
TokenRejection ==
    (/\ reply # NoReply /\ reply.gateRan
     /\ Presented.kind = "jwt"
     /\ \/ Presented.sig.by # testJWTkey
        \/ Presented.claims.ExpiresAt < now)
    => /\ verifyJWTandGetPayload(testJWTkey, Presented, now).st = "err"
       /\ GetAuthenticator(testJWTkey, reply.md, now).st = "err"
       /\ ~reply.who.ok
       /\ ~reply.handler

\* a token the server issued has been presented with the bearer scheme after
\* its expiry
TokenRejectionWitness ==
    /\ reply # NoReply /\ reply.gateRan
    /\ reply.md.has
    /\ ToLower(reply.md.scheme) = "bearer"
    /\ \E i \in issued : i.token = Presented
    /\ Presented.claims.ExpiresAt < now
    /\ ~reply.handler

\* C7: token round trip.  A token that Register or Login made with getJWT
\* for a user, presented as bearer token to the storage service before its
\* expiry, passes the gate, and the identity the handler reads from its
\* context has the id and the login of that user.
TokenRoundTrip ==
    \A i \in issued :
       (/\ reply # NoReply /\ reply.service = StorageService
        /\ reply.md = Authorization("bearer", i.token)
        /\ now < i.token.claims.ExpiresAt)
       => /\ reply.handler
          /\ reply.who.ok
          /\ reply.who.token.ID = i.id
          /\ reply.who.token.Login = i.login

\* a token has passed the gate late in its session
TokenRoundTripWitness ==
    \E i \in issued :
       /\ reply # NoReply /\ reply.service = StorageService
       /\ reply.md = Authorization("bearer", i.token)
       /\ now = SessionTicks - 1
       /\ reply.handler
       /\ reply.who.token.Login = i.login /\ i.login # ""

(***************************************************************************)
(* The crypto engine on its own: encryptionData applied to drawn inputs,   *)
(* then decryptionData applied to what it returned, with the same master   *)
(* key, with another one, or after one bit of one string was changed.      *)
(***************************************************************************)
\* master keys the server accepts at start-up (16 bytes or more)
LongKey == testMasterKey \o <<57>>

OtherKey == [i \in 1..24 |-> 64 + i]

MasterKeys == {testMasterKey, LongKey, OtherKey}

PlainBytes == {97}

RECURSIVE SeqsUpTo(_, _)
SeqsUpTo(S, n) ==
    IF n = 0 THEN {<<>>}
    ELSE LET shorter == SeqsUpTo(S, n - 1)
         IN  shorter \cup {Append(s, x) : s \in {t \in shorter : Len(t) = n - 1}, x \in S}

Plaintexts == SeqsUpTo(PlainBytes, MaxPlain)

\* what rand.Read may deliver: 16-byte record keys and 12-byte nonces
RandKeys == {[i \in 1..16 |-> (17 * i) % 256], [i \in 1..16 |-> (250 + i) % 256]}

RandNonces == {[i \in 1..12 |-> (5 * i + 200) % 256], [i \in 1..12 |-> (247 + 2 * i) % 256]}

Pow2(b) == IF b = 0 THEN 1 ELSE IF b = 1 THEN 2 ELSE IF b = 2 THEN 4
           ELSE IF b = 3 THEN 8 ELSE IF b = 4 THEN 16 ELSE IF b = 5 THEN 32
           ELSE IF b = 6 THEN 64 ELSE 128

\* the string s with bit b of its byte at position pos changed
FlipBit(s, pos, b) ==
    [s EXCEPT ![pos] = IF (s[pos] \div Pow2(b)) % 2 = 1
                       THEN s[pos] - Pow2(b) ELSE s[pos] + Pow2(b)]

LabIdle == [stage |-> "idle"]

LabEncrypt ==
    /\ lab.stage = "idle"
    /\ \E mk \in MasterKeys, p \in Plaintexts, k \in RandKeys, nk \in RandNonces, nd \in RandNonces :
          lab' = [stage |-> "sealed", mk |-> mk, plain |-> p,
                  enc |-> encryptionData(mk, p, Draw(k, nk, nd))]
    /\ UNCHANGED <<users, records, nextUser, nextRecord, calls, reply, now, issued, deleted, agent>>

LabDecrypt ==
    /\ lab.stage = "sealed" /\ lab.enc.st = "ok"
    /\ lab' = [stage |-> "opened", how |-> "same", mk |-> lab.mk, plain |-> lab.plain,
               with |-> lab.mk,
               out |-> decryptionData(lab.mk, lab.enc.val.key, lab.enc.val.data)]
    /\ UNCHANGED <<users, records, nextUser, nextRecord, calls, reply, now, issued, deleted, agent>>

LabDecryptOther ==
    /\ lab.stage = "sealed" /\ lab.enc.st = "ok"
    /\ \E m2 \in MasterKeys \ {lab.mk} :
          lab' = [stage |-> "opened", how |-> "other", mk |-> lab.mk, plain |-> lab.plain,
                  with |-> m2,
                  out |-> decryptionData(m2, lab.enc.val.key, lab.enc.val.data)]
    /\ UNCHANGED <<users, records, nextUser, nextRecord, calls, reply, now, issued, deleted, agent>>

LabTamper ==
    /\ lab.stage = "sealed" /\ lab.enc.st = "ok"
    /\ \E which \in {"data", "key"}, b \in 0..7 :
          \E pos \in 1..Len(lab.enc.val[which]) :
             LET changed == FlipBit(lab.enc.val[which], pos, b)
                 key  == IF which = "key" THEN changed ELSE lab.enc.val.key
                 data == IF which = "data" THEN changed ELSE lab.enc.val.data
             IN  lab' = [stage |-> "opened", how |-> "tamper", mk |-> lab.mk,
                         plain |-> lab.plain, with |-> lab.mk,
                         which |-> which, pos |-> pos, bit |-> b,
                         out |-> decryptionData(lab.mk, key, data)]
    /\ UNCHANGED <<users, records, nextUser, nextRecord, calls, reply, now, issued, deleted, agent>>

\* one stored string loses its separator, gains a second one, loses a
\* character of its second part, or carries a nonce of nine bytes; decrypt
\* is then called on it with the key that sealed it
Malformed(encoded, kind) ==
    LET splStr == Split(encoded)
    IN  CASE kind = "none"   -> splStr[1] \o splStr[2]
          [] kind = "two"    -> encoded \o <<Star>>
          [] kind = "base64" -> splStr[1] \o <<Star>> \o Tail(splStr[2])
          [] kind = "nonce"  -> EncodeToString(SubSeq(DecodeString(splStr[1]).val, 1, 9))
                                   \o <<Star>> \o splStr[2]

LabMalform ==
    /\ lab.stage = "sealed" /\ lab.enc.st = "ok"
    /\ \E which \in {"data", "key"}, kind \in {"none", "two", "base64", "nonce"} :
          LET key == IF which = "key" THEN lab.mk
                     ELSE decrypt(lab.mk, lab.enc.val.key).val
          IN  lab' = [stage |-> "opened", how |-> "malformed", mk |-> lab.mk,
                      plain |-> lab.plain, with |-> lab.mk,
                      which |-> which, kind |-> kind,
                      out |-> decrypt(key, Malformed(lab.enc.val[which], kind))]
    /\ UNCHANGED <<users, records, nextUser, nextRecord, calls, reply, now, issued, deleted, agent>>

InitCrypto ==
    /\ users = {} /\ records = {} /\ nextUser = 1 /\ nextRecord = 1
    /\ calls = <<>> /\ reply = NoReply /\ now = 0 /\ issued = {}
    /\ lab = LabIdle
    /\ deleted = {}
    /\ agent = [pc |-> "idle"]

NextCrypto == LabEncrypt \/ LabDecrypt \/ LabDecryptOther \/ LabTamper \/ LabMalform

SpecCrypto == InitCrypto /\ [][NextCrypto]_vars

(***************************************************************************)
(* Properties of the crypto engine.                                        *)
(***************************************************************************)
\* C3: round trip.  For every plaintext and every master key of 16 bytes or
\* more, decryptionData with that master key, applied to the pair that
\* encryptionData returned, succeeds and returns exactly the plaintext.
RoundTrip ==
    (lab.stage = "opened" /\ lab.how = "same") => lab.out = Ok(lab.plain)

\* a plaintext of two bytes sealed under a master key longer than 16 bytes
\* has been opened again
RoundTripWitness ==
    /\ lab.stage = "opened" /\ lab.how = "same"
    /\ Len(lab.mk) > minimumCharMasterKey
    /\ Len(lab.plain) >= 2
    /\ lab.out.st = "ok"

\* C4 as stated: decryptionData with any master key other than the one that
\* sealed the pair returns an error.
CrossKeyFails ==
    (lab.stage = "opened" /\ lab.how = "other") => lab.out.st = "err"

\* C4, amended: decryptionData returns an error when the first 16 bytes of
\* its master key differ from the first 16 bytes of the master key that
\* sealed the pair.
CrossKeyFailsOnFirst16 ==
    (/\ lab.stage = "opened" /\ lab.how = "other"
     /\ adjustKeySize(lab.mk, sizeRandomKey) # adjustKeySize(lab.with, sizeRandomKey))
    => lab.out.st = "err"

\* a pair sealed under one master key has been refused under another that
\* differs within its first 16 bytes
CrossKeyFailsWitness ==
    /\ lab.stage = "opened" /\ lab.how = "other"
    /\ adjustKeySize(lab.mk, sizeRandomKey) # adjustKeySize(lab.with, sizeRandomKey)
    /\ Len(lab.plain) >= 1
    /\ lab.out.st = "err"

\* C5: tamper detection.  After any single bit of the cipher value or of the
\* wrapped key was changed, decryptionData returns an error; it returns no
\* plaintext, the original included, and it does not panic.
TamperDetected ==
    (lab.stage = "opened" /\ lab.how = "tamper") => lab.out.st = "err"

(***************************************************************************)
(* The storage handlers on their own: a server that registers them with    *)
(* no gate in front hands them contexts with or without an identity claim. *)
(***************************************************************************)
\* the contexts a handler is handed: none carrying a claim, and a user's
DirectCtxs == { Background, SetTokenToContext(Background, Alice.claims) }

\* what a unary handler returned for the context it was handed, and the
\* rows it found
Direct(method, ctx, id, out, rows) ==
    [op |-> "direct", method |-> method, ctx |-> ctx, id |-> id, out |-> out,
     before |-> rows]

DirectReadAllRecord ==
    /\ \E ctx \in DirectCtxs, up \in BOOLEAN :
          reply' = Direct("ReadAllRecord", ctx, 0, ReadAllRecord(ctx, records, up), records)
    /\ UNCHANGED <<users, records, nextUser, nextRecord, calls, now, issued, lab, deleted, agent>>

DirectReadRecord ==
    /\ \E ctx \in DirectCtxs, id \in RecordIds, up \in BOOLEAN :
          reply' = Direct("ReadRecord", ctx, id, ReadRecord(ctx, id, records, up), records)
    /\ UNCHANGED <<users, records, nextUser, nextRecord, calls, now, issued, lab, deleted, agent>>

DirectDeleteRecord ==
    /\ \E ctx \in DirectCtxs, id \in RecordIds, up \in BOOLEAN :
          LET del == DeleteRecord(ctx, id, records, up)
          IN  /\ reply' = Direct("DeleteRecord", ctx, id, del.resp, records)
              /\ records' = del.rows
    /\ UNCHANGED <<users, nextUser, nextRecord, calls, now, issued, lab, deleted, agent>>

\* the WriteRecord handler starts on a stream and runs up to its first Recv
DirectWriteRecord ==
    /\ Len(calls) < MaxCalls
    /\ \A c \in 1..Len(calls) : calls[c].pc = "returned"
    /\ \E ctx \in DirectCtxs, sendOK \in BOOLEAN :
          calls' = Append(calls, WriteRecordEnter(ctx, FALSE, sendOK))
    /\ UNCHANGED <<users, records, nextUser, nextRecord, reply, now, issued, lab, deleted, agent>>

NextDirect ==
    \/ DirectReadAllRecord
    \/ DirectReadRecord
    \/ DirectDeleteRecord
    \/ DirectWriteRecord
    \/ \E c \in 1..Len(calls) : RecvChunk(c)
    \/ \E c \in 1..Len(calls) : RecvError(c)
    \/ \E c \in 1..Len(calls) : RecvEOF(c)

SpecDirect == Init /\ [][NextDirect]_vars

\* C11: a storage handler whose context carries no identity claim answers
\* "invalid token" in the response, returns no transport error, and leaves
\* the rows as they were: the unary handlers have returned just that, and a
\* WriteRecord call without a claim answers "invalid token" and creates no
\* row, for the zero identity or any other.
NoIdentityIsInvalidToken ==
    /\ (reply # NoReply /\ ~reply.ctx.hasToken) =>
          /\ reply.out.st = "ok"
          /\ reply.out.val.Error = errorInvalidToken
          /\ records = reply.before
    /\ \A c \in 1..Len(calls) :
          ~calls[c].hasToken =>
             /\ calls[c].respError = errorInvalidToken
             /\ calls[c].wrote = 0
             /\ \A r \in records : r.Owner # ZeroClaims.ID

(***************************************************************************)
(* Listing, deleting and the answers for what is not there.                *)
(***************************************************************************)
\* the call returned nil after a response without an error, having created
\* a row
WroteOK(call) ==
    /\ call.pc = "returned" /\ call.ret = "nil" /\ call.respError = ""
    /\ call.wrote # 0

\* the ids ReadAllRecord lists for a caller while the database answers
Listed(ctx) ==
    LET all == ReadAllRecord(ctx, records, TRUE).val.Units
    IN  { all[i].Id : i \in 1..Len(all) }

\* C12: while the database answers, ReadAllRecord for an authenticated owner
\* lists exactly once, under its name, every row that a successful
\* WriteRecord of that owner created and that the owner has not deleted,
\* and lists nothing else: every entry is a row of an earlier run or of a
\* WriteRecord call of that owner whose response carried no error.
ReadAllListsWritten ==
    \A ctx \in Callers :
       LET u   == GetTokenFromContext(ctx).token.ID
           all == ReadAllRecord(ctx, records, TRUE).val.Units
       IN  /\ \A c \in 1..Len(calls) :
                 (/\ WroteOK(calls[c]) /\ calls[c].token.ID = u
                  /\ \A d \in deleted : d.ID # calls[c].wrote)
                 => /\ Cardinality({i \in 1..Len(all) : all[i].Id = calls[c].wrote}) = 1
                    /\ \A i \in 1..Len(all) :
                          all[i].Id = calls[c].wrote => all[i].Name = calls[c].fileName
           /\ \A i \in 1..Len(all) :
                 \/ \E r \in SeedRows : r.ID = all[i].Id /\ r.Owner = u
                 \/ \E c \in 1..Len(calls) :
                       /\ calls[c].wrote = all[i].Id /\ calls[c].token.ID = u
                       /\ calls[c].respError = ""

\* C13: once the owner's DeleteRecord has removed a row, ReadRecord on its
\* id by that owner answers "record not found", whether the database
\* answers the query or fails it, and ReadAllRecord for that owner does
\* not list the id, whatever is written or deleted afterwards.
DeletedStaysGone ==
    \A d \in deleted :
       \A ctx \in Callers :
          GetTokenFromContext(ctx).token.ID = d.Owner =>
             /\ \A up \in BOOLEAN :
                   ReadRecord(ctx, d.ID, records, up)
                      = Ok(ReadRecordResponse("record not found", "", "", <<>>))
             /\ d.ID \notin Listed(ctx)

\* an owner has deleted a row and a row was written since
DeletedStaysGoneWitness ==
    \E d \in deleted :
       /\ \E ctx \in Callers : GetTokenFromContext(ctx).token.ID = d.Owner
       /\ \E r \in records : r.ID > d.ID /\ r.Owner = d.Owner

\* C14: DeleteRecord by a caller for an id that matches no row of that
\* caller (no row has the id, or the row belongs to someone else) returns a
\* response without an error while the database answers, and leaves every
\* row as it was, whether the database answers or not; the rows that
\* DeleteRecord has removed for their owners are the ones that are gone.
DeleteOfNoMatchIsNoop ==
    /\ \A ctx \in Callers, id \in RecordIds :
          (\A r \in records : ~(r.ID = id /\ r.Owner = GetTokenFromContext(ctx).token.ID))
          => /\ DeleteRecord(ctx, id, records, TRUE)
                   = [resp |-> Ok([Error |-> ""]), rows |-> records]
             /\ DeleteRecord(ctx, id, records, FALSE).rows = records
    /\ \A d \in deleted : \A r \in records : r.ID # d.ID

\* a user's DeleteRecord on the id of another user's row has returned
\* without an error, and the row is stored
DeleteOfNoMatchIsNoopWitness ==
    /\ reply # NoReply /\ reply.method = "DeleteRecord" /\ reply.handler
    /\ reply.out.val.Error = ""
    /\ \E r \in records : r.ID = reply.id /\ r.Owner # reply.who.token.ID

\* the caller of the last reply owns no row
OwnsNothing == \A r \in records : r.Owner # reply.who.token.ID

\* C15 as stated: ReadAllRecord for an owner with no rows and ReadRecord for
\* an id without a row of the caller each return a response whose error
\* field is set.
NotFoundIsExplicit ==
    /\ (/\ reply # NoReply /\ reply.method = "ReadAllRecord" /\ reply.handler
        /\ OwnsNothing)
       => reply.out.val.Error # ""
    /\ (/\ reply # NoReply /\ reply.method = "ReadRecord" /\ reply.handler
        /\ \A r \in records : ~(r.ID = reply.id /\ r.Owner = reply.who.token.ID))
       => reply.out.val.Error = "record not found"

\* C15, amended: ReadRecord for an id without a row of the caller returns
\* the "record not found" error; ReadAllRecord for an owner with no rows
\* returns an empty list and no error.
NotFoundOnlyForReadRecord ==
    /\ (/\ reply # NoReply /\ reply.method = "ReadAllRecord" /\ reply.handler
        /\ OwnsNothing)
       => reply.out = Ok([Error |-> "", Units |-> <<>>])
    /\ (/\ reply # NoReply /\ reply.method = "ReadRecord" /\ reply.handler
        /\ \A r \in records : ~(r.ID = reply.id /\ r.Owner = reply.who.token.ID))
       => reply.out = Ok(ReadRecordResponse("record not found", "", "", <<>>))
    /\ \A ctx \in Callers, up \in BOOLEAN :
          (\A r \in records : r.Owner # GetTokenFromContext(ctx).token.ID)
          => ReadAllRecord(ctx, records, up) = Ok([Error |-> "", Units |-> <<>>])

\* a user who owns no row has listed its records while rows of another
\* user are stored
NotFoundOnlyForReadRecordWitness ==
    /\ reply # NoReply /\ reply.method = "ReadAllRecord" /\ reply.handler
    /\ OwnsNothing
    /\ records # {}
    /\ reply.out.val.Units = <<>>

\* C16: the unary storage handlers report every failure in the error field
\* of a response they return with a nil transport error: for every caller,
\* id and state of the database, ReadAllRecord, ReadRecord and DeleteRecord
\* return a response (Register and Login have no other return).
UnaryFailuresInResponse ==
    \A ctx \in Callers, id \in RecordIds, up \in BOOLEAN :
       /\ ReadAllRecord(ctx, records, up).st = "ok"
       /\ ReadRecord(ctx, id, records, up).st = "ok"
       /\ DeleteRecord(ctx, id, records, up).resp.st = "ok"

(***************************************************************************)
(* Registration and login.                                                 *)
(***************************************************************************)
\* C17: Register with a login that a user has already returns "this user
\* exists" and no token and creates no user, so no two users share a login
\* (or an id); when CreateUser fails for another reason the answer is
\* "failed create user"; a reply with either error brings no token.
DuplicateLoginRefused ==
    /\ \A u1, u2 \in users : (u1.Login = u2.Login \/ u1.ID = u2.ID) => u1 = u2
    /\ \A u \in users :
          /\ Register(u.Login, "pw", users, nextUser, TRUE, now)
                = [resp |-> UserResponse("this user exists", NoJwt, NoUser),
                   rows |-> users, serial |-> nextUser]
          /\ Register(u.Login, "pw", users, nextUser, FALSE, now)
                = [resp |-> UserResponse("failed create user", NoJwt, NoUser),
                   rows |-> users, serial |-> nextUser]
    /\ \A login \in Logins :
          Register(login, "pw", users, nextUser, FALSE, now).resp.Error = "failed create user"
    /\ (/\ reply # NoReply /\ reply.method = "Register"
        /\ reply.out.val.Error \in {"this user exists", "failed create user"})
       => reply.out.val.Jwt = NoJwt

\* a registration was answered "this user exists"
DuplicateLoginRefusedWitness ==
    /\ reply # NoReply /\ reply.method = "Register"
    /\ reply.out.val.Error = "this user exists"
    /\ Cardinality(users) = 1

\* the passwords clients type
Passwords == {"pw", "bad", ""}

Accepts(i, t) == GetAuthenticator(testJWTkey, Authorization("bearer", i.token), t).st = "ok"

\* C19 as stated: the expiry of a token issued at time t is exactly t + 30
\* minutes; the gate accepts it at every time before and rejects it at
\* every time after.
ExpiryIsThirtyMinutes ==
    \A i \in issued :
       /\ i.token.claims.ExpiresAt = i.at + SessionTicks
       /\ \A t \in Instants :
             /\ (i.at <= t /\ t < i.at + SessionTicks) => Accepts(i, t)
             /\ t > i.at + SessionTicks => ~Accepts(i, t)

\* C19, amended: the expiry of a token issued at time t is t + 30 minutes
\* cut to the whole second, so less than a second before t + 30 minutes at
\* the earliest; the gate accepts the token at every time before that
\* expiry and rejects it from the expiry on, in calls as in the
\* authenticator alone; a kept token is as it was issued.
ExpiryIsThirtyMinutesTruncated ==
    \A i \in issued :
       LET exp == i.token.claims.ExpiresAt
       IN  /\ exp = NewNumericDate(i.at + SessionTicks)
           /\ exp <= i.at + SessionTicks
           /\ i.at + SessionTicks < exp + TicksPerSecond
           /\ i.token = getJWT(testJWTkey, i.id, i.login, i.at).val
           /\ \A t \in Instants : Accepts(i, t) = (t < exp)
           /\ (/\ reply # NoReply /\ reply.service = StorageService
               /\ reply.md = Authorization("bearer", i.token))
              => reply.handler = (now < exp)

\* a token issued within a second was refused less than 30 minutes later,
\* at its expiry
ExpiryIsThirtyMinutesTruncatedWitness ==
    \E i \in issued :
       /\ NewNumericDate(i.at) # i.at
       /\ reply # NoReply /\ reply.service = StorageService
       /\ reply.md = Authorization("bearer", i.token)
       /\ now < i.at + SessionTicks
       /\ ~reply.handler

(***************************************************************************)
(* The agent's Client.WriteFile, one step per call on the stream or the    *)
(* file.  Sizes are scaled: chunkSize is 4096 and maxMsgSize 100000648 in  *)
(* the code.                                                               *)
(***************************************************************************)
chunkSize == 2

maxMsgSize == 5

\* the bytes of files and texts
FileBytes == {97, 98}

\* the files the agent may be pointed at, one byte longer than maxMsgSize
\* at most, and the texts it may be given
Files == SeqsUpTo(FileBytes, maxMsgSize + 1)

Texts == SeqsUpTo(FileBytes, 2)

WriteRecordRequest(name, data, type) == Chunk(name, type, data)

\* lines 146-157 and the head of the case taken: the stream is opened; for
\* a file, os.Open, Stat and the size check
WriteFileEnter(typ, name, data, streamOK, exists) ==
    LET call == [pc |-> "returned", typ |-> typ, name |-> name, data |-> data,
                 offset |-> 0, sent |-> <<>>, closed |-> FALSE, err |-> ""]
    IN  IF ~streamOK THEN [call EXCEPT !.err = "stream"]
        ELSE IF typ = "text" THEN [call EXCEPT !.pc = "send"]
        ELSE IF typ = "file"
        THEN IF ~exists THEN [call EXCEPT !.err = "open"]
             ELSE IF Len(data) > maxMsgSize THEN [call EXCEPT !.err = "size"]
             ELSE [call EXCEPT !.pc = "read"]
        ELSE call

\* stream.Send(&proto.WriteRecordRequest{...})
Send(call, chunk, sendOK) ==
    IF sendOK THEN [call EXCEPT !.sent = Append(@, chunk)]
    ELSE [call EXCEPT !.pc = "returned", !.err = "send"]

\* lines 160-165: the text goes out as one chunk
WriteFileText(call, sendOK) ==
    LET sent == Send(call, WriteRecordRequest(call.name, call.data, "text"), sendOK)
    IN  IF sent.err # "" THEN sent ELSE [sent EXCEPT !.pc = "close"]

\* lines 194-215: one turn of the loop, file.Read(buf) and what follows
WriteFileRead(call, sendOK) ==
    LET rest == Len(call.data) - call.offset
        n    == IF rest < chunkSize THEN rest ELSE chunkSize
    IN  IF n = 0
        THEN [call EXCEPT !.pc = "close"]
        ELSE Send([call EXCEPT !.offset = @ + n],
                  WriteRecordRequest(call.name,
                                     SubSeq(call.data, call.offset + 1, call.offset + n),
                                     "file"),
                  sendOK)

\* stream.CloseAndRecv()
CloseAndRecv(call, recvOK) ==
    [call EXCEPT !.closed = TRUE, !.pc = "returned",
                 !.err = IF recvOK THEN "" ELSE "CloseAndRecv"]

AgentWriteFile ==
    /\ agent.pc = "idle"
    /\ \E typ \in {"text", "file"}, name \in {"n"}, streamOK \in BOOLEAN, exists \in BOOLEAN :
          \E data \in (IF typ = "text" THEN Texts ELSE Files) :
             agent' = WriteFileEnter(typ, name, data, streamOK, exists)
    /\ UNCHANGED <<users, records, nextUser, nextRecord, calls, reply, now, issued, lab, deleted>>

AgentSendText ==
    /\ agent.pc = "send"
    /\ \E sendOK \in BOOLEAN : agent' = WriteFileText(agent, sendOK)
    /\ UNCHANGED <<users, records, nextUser, nextRecord, calls, reply, now, issued, lab, deleted>>

AgentReadFile ==
    /\ agent.pc = "read"
    /\ \E sendOK \in BOOLEAN : agent' = WriteFileRead(agent, sendOK)
    /\ UNCHANGED <<users, records, nextUser, nextRecord, calls, reply, now, issued, lab, deleted>>

AgentCloseAndRecv ==
    /\ agent.pc = "close"
    /\ \E recvOK \in BOOLEAN : agent' = CloseAndRecv(agent, recvOK)
    /\ UNCHANGED <<users, records, nextUser, nextRecord, calls, reply, now, issued, lab, deleted>>

NextAgent == AgentWriteFile \/ AgentSendText \/ AgentReadFile \/ AgentCloseAndRecv

SpecAgent == Init /\ [][NextAgent]_vars

\* C20: when WriteFile closes the stream it has sent one chunk or more, for
\* a text and for a file of any length.
WriteFileSendsBeforeClose ==
    (agent.pc # "idle" /\ agent.closed) => Len(agent.sent) >= 1

(***************************************************************************)
(* The stages of WriteRecord.                                              *)
(***************************************************************************)
\* the messages of the stages that follow the identity check
StageErrors == { "failed recive chunk", "failed write chunk to buffer",
                 "failed encrypt data", "failed write record" }

\* C21: a WriteRecord call that has reported the failure of a stage has
\* returned without running a later stage: it is not back in the loop, it
\* has called Recv no more after a Recv that failed, and it has created no
\* row.
FailedStageIsLast ==
    \A c \in 1..Len(calls) :
       calls[c].respError \in StageErrors =>
          /\ calls[c].pc = "returned"
          /\ calls[c].nerr <= 1
          /\ calls[c].wrote = 0

\* C22: every row WriteRecord has created belongs to the identity of the
\* call that created it: the call had an identity claim and the row's owner
\* is the ID of that claim; no row has the zero owner.
OwnerIsCaller ==
    /\ \A c \in 1..Len(calls) :
          calls[c].wrote # 0 =>
             /\ calls[c].hasToken
             /\ \A r \in records : r.ID = calls[c].wrote => r.Owner = calls[c].token.ID
    /\ \A r \in records : r.Owner # ZeroClaims.ID

\* C23: every stored row holds a value and a key that a successful
\* encryptionData call produced under the server's master key: neither is
\* empty and decryptionData opens them with that master key.
RowsAreSealed ==
    \A r \in records :
       /\ r.Value # <<>>
       /\ r.Key # <<>>
       /\ decryptionData(MasterKey, r.Key, r.Value).st = "ok"

\* C24: decrypt answers an encoded string that does not hold exactly one
\* separator, a part that is not base64, or a nonce of the wrong length with
\* an error: it does not panic and it returns no plaintext.
MalformedIsAnError ==
    (lab.stage = "opened" /\ lab.how = "malformed") => lab.out.st = "err"

\* the first value of a sequence of strings that is not empty, "" when none
RECURSIVE FirstNonEmpty(_)
FirstNonEmpty(values) ==
    IF values = <<>> THEN ""
    ELSE IF Head(values) # "" THEN Head(values)
    ELSE FirstNonEmpty(Tail(values))

\* C25: at every point of a WriteRecord call its name and its kind are the
\* first non-empty name and the first non-empty kind over the chunks
\* received so far, in order, and the row the call creates carries them.
FirstNameAndKindWin ==
    \A c \in 1..Len(calls) :
       LET got  == calls[c].got
           name == FirstNonEmpty([i \in 1..Len(got) |-> got[i].Name])
           kind == FirstNonEmpty([i \in 1..Len(got) |-> got[i].Type])
       IN  /\ calls[c].fileName = name
           /\ calls[c].fileType = kind
           /\ \A r \in records :
                 r.ID = calls[c].wrote => r.Name = name /\ r.Type = kind

\* a row was created from two chunks of which the first had no name and the
\* two named different kinds: it has the name of the second and the kind
\* of the first
FirstNameAndKindWinWitness ==
    \E c \in 1..Len(calls) :
       /\ Len(calls[c].got) = 2
       /\ calls[c].got[1].Name = "" /\ calls[c].got[2].Name # ""
       /\ calls[c].got[1].Type # "" /\ calls[c].got[2].Type # calls[c].got[1].Type
       /\ \E r \in records :
             /\ r.ID = calls[c].wrote
             /\ r.Name = calls[c].got[2].Name /\ r.Type = calls[c].got[1].Type

LookupFailureIsAnError ==
    /\ \A u \in users :
          /\ DBFindUserByLogin(users, u.Login, FALSE).err
          /\ \A password \in Passwords :
                Login(u.Login, password, users, FALSE, now).Error = "failed get user"
    /\ \A r \in records :
          LET ctx == SetTokenToContext(Background, JWTclaims(r.Owner, "", 0))
          IN  /\ DBReadRecord(records, r.ID, r.Owner, FALSE).err
              /\ DBReadAllRecord(records, r.Owner, FALSE).err
              /\ ReadRecord(ctx, r.ID, records, FALSE).val.Error = "failed read record"

(***************************************************************************)
(* Uploads in parallel: the server runs each WriteRecord call in its own   *)
(* goroutine, so the Recv steps of the open calls interleave freely.       *)
(***************************************************************************)
\* calls open at once
MaxStreams == 2

\* a client with a credential the gate accepts opens a stream while others
\* are open; the handler runs up to its first Recv
OpenUpload ==
    /\ Len(calls) < MaxStreams
    /\ \E md \in StoreCreds :
          LET g == Intercept(testJWTkey, StorageService, md, now)
          IN  /\ g.pass
              /\ calls' = Append(calls, WriteRecordEnter(g.ctx, Verified(md, now), TRUE))
    /\ UNCHANGED <<users, records, nextUser, nextRecord, reply, now, issued, lab, deleted, agent>>

NextUploads ==
    \/ OpenUpload
    \/ \E c \in 1..Len(calls) : RecvChunk(c)
    \/ \E c \in 1..Len(calls) : RecvError(c)
    \/ \E c \in 1..Len(calls) : RecvEOF(c)

SpecUploads == Init /\ [][NextUploads]_vars

\* C28: under every interleaving of the Recv steps of calls that are open
\* at once, each call holds in its buffer the chunks of its own stream
\* only, in order, with its own stream's first name and kind, and each row
\* a call created under its own verified identity without reporting an
\* error decrypts to the concatenation of that call's chunks and carries
\* that call's name, kind and owner.
UploadsAreIsolated ==
    \A c \in 1..Len(calls) :
       LET call == calls[c]
           got  == call.got
       IN  /\ call.buffer = ConcatData(got)
           /\ call.fileName = FirstNonEmpty([i \in 1..Len(got) |-> got[i].Name])
           /\ call.fileType = FirstNonEmpty([i \in 1..Len(got) |-> got[i].Type])
           /\ call.verified /\ call.hasToken
           /\ \A r \in records :
                 (r.ID = call.wrote /\ call.respError = "") =>
                    /\ decryptionData(MasterKey, r.Key, r.Value) = Ok(ConcatData(got))
                    /\ r.Name = call.fileName /\ r.Type = call.fileType
                    /\ r.Owner = call.token.ID
                    /\ \A d \in 1..Len(calls) : d # c => calls[d].wrote # r.ID

\* two users uploaded different data at once and the call opened second
\* finished first; each row holds its own call's two chunks
UploadsAreIsolatedWitness ==
    /\ Len(calls) = 2
    /\ calls[1].token.ID # calls[2].token.ID
    /\ calls[1].got # calls[2].got
    /\ Len(calls[1].got) = 2 /\ Len(calls[2].got) = 2
    /\ calls[1].respError = "" /\ calls[2].respError = ""
    /\ calls[1].wrote # 0 /\ calls[2].wrote # 0
    /\ calls[2].wrote < calls[1].wrote
    /\ \E r \in records : r.ID = calls[1].wrote /\ r.Owner = calls[1].token.ID
    /\ \E r \in records : r.ID = calls[2].wrote /\ r.Owner = calls[2].token.ID

(***************************************************************************)
(* Termination of WriteRecord.                                             *)
(***************************************************************************)
\* what the handler's next step depends on: where it is and its variables,
\* without the counts kept about the stream
Locals(call) ==
    [pc |-> call.pc, token |-> call.token, fileName |-> call.fileName,
     fileType |-> call.fileType, buffer |-> call.buffer, respError |-> call.respError]

\* C29: WriteRecord returns after finitely many Recv calls on a stream whose
\* Recv fails for good while SendAndClose does not fail: a step of a call
\* that waits in Recv on such a stream either returns or changes the
\* handler's variables; it never brings the handler back to Recv as it was,
\* from where the same step would repeat without end.
RecvFailureEndsTheLoop ==
    [][\A c \in 1..Len(calls) :
          (calls[c].broken /\ calls[c].pc = "recv" /\ calls'[c] # calls[c]) =>
             \/ calls'[c].pc = "returned"
             \/ Locals(calls'[c]) # Locals(calls[c])]_vars

(***************************************************************************)
(* Start-up.  main checks the master key it was given before it opens the  *)
(* database and serves; a server that serves seals and opens records with  *)
(* that key.                                                               *)
(***************************************************************************)
\* main without the check of the length
mainAnyLength(mk) ==
    IF mk = <<>> THEN "fatal" ELSE "serving"

\* main up to RunGRPCserver: lg.Fatal ends the process
main(mk) ==
    IF mk = <<>> THEN "fatal"
    ELSE IF Len(mk) < minimumCharMasterKey THEN "fatal"
    ELSE "serving"

\* the master keys operators pass with -mk: none, one byte short, and keys
\* of 16, 17, 24 and 32 bytes
OfferedKeys ==
    { <<>>, SubSeq(testMasterKey, 1, 15), testMasterKey, LongKey, OtherKey,
      testMasterKey \o testMasterKey }

\* what the random source holds when rand.Read is called
Entropy == { [i \in 1..20 |-> (17 * i) % 256], [i \in 1..20 |-> (250 + i) % 256] }

Start ==
    /\ lab.stage = "off"
    /\ \E mk \in OfferedKeys : lab' = [stage |-> main(mk), mk |-> mk]
    /\ UNCHANGED <<users, records, nextUser, nextRecord, calls, reply, now, issued, deleted, agent>>

\* the steps of encryptionData in the serving process, each result kept
ServeEncrypt ==
    /\ lab.stage = "serving"
    /\ \E p \in Plaintexts, ek \in Entropy, nk \in Entropy, nd \in Entropy :
          LET key == generateRandom(sizeRandomKey, ek)
          IN  lab' = [stage |-> "sealed", mk |-> lab.mk, plain |-> p, key |-> key.val,
                      encKey |-> encrypt(lab.mk, key.val, nk),
                      encData |-> encrypt(key.val, p, nd),
                      enc |-> encryptionData(lab.mk, p, Draw(ek, nk, nd))]
    /\ UNCHANGED <<users, records, nextUser, nextRecord, calls, reply, now, issued, deleted, agent>>

\* the steps of decryptionData on what was sealed
ServeDecrypt ==
    /\ lab.stage = "sealed" /\ lab.enc.st = "ok"
    /\ lab' = [stage |-> "opened", mk |-> lab.mk, plain |-> lab.plain, key |-> lab.key,
               encKey |-> lab.encKey, encData |-> lab.encData, enc |-> lab.enc,
               decKey |-> decrypt(lab.mk, lab.enc.val.key),
               decData |-> decrypt(lab.key, lab.enc.val.data)]
    /\ UNCHANGED <<users, records, nextUser, nextRecord, calls, reply, now, issued, deleted, agent>>

InitStart ==
    /\ users = {} /\ records = {} /\ nextUser = 1 /\ nextRecord = 1
    /\ calls = <<>> /\ reply = NoReply /\ now = 0 /\ issued = {}
    /\ lab = [stage |-> "off"]
    /\ deleted = {}
    /\ agent = [pc |-> "idle"]

NextStart == Start \/ ServeEncrypt \/ ServeDecrypt

SpecStart == InitStart /\ [][NextStart]_vars

\* the error of encrypt and decrypt for a key the cipher refuses
KeyRefused == Err("failed to create AES cipher")

\* C30: a process that got past main serves with a master key of 16 bytes
\* or more, so every key given to aes.NewCipher, the master key cut by
\* adjustKeySize and each generated record key, has exactly 16 bytes, and
\* no encrypt or decrypt fails in the set-up of the cipher.
ServingKeysAreSixteenBytes ==
    lab.stage \in {"serving", "sealed", "opened"} =>
       /\ Len(lab.mk) >= minimumCharMasterKey
       /\ Len(adjustKeySize(lab.mk, sizeRandomKey)) = 16
       /\ NewCipher(adjustKeySize(lab.mk, sizeRandomKey)).st = "ok"
       /\ lab.stage \in {"sealed", "opened"} =>
             /\ Len(lab.key) = 16
             /\ lab.encKey # KeyRefused /\ lab.encData # KeyRefused
             /\ lab.enc.st = "ok"
       /\ lab.stage = "opened" =>
             /\ lab.decKey # KeyRefused /\ lab.decData # KeyRefused
             /\ lab.decKey = Ok(lab.key) /\ lab.decData = Ok(lab.plain)

\* a process given a master key longer than 16 bytes has sealed and opened
\* a record, and one given a key of 15 bytes has ended in main
ServingKeysAreSixteenBytesWitness ==
    /\ lab.stage = "opened"
    /\ Len(lab.mk) > minimumCharMasterKey
    /\ lab.decData = Ok(lab.plain) /\ Len(lab.plain) >= 1
    /\ main(SubSeq(testMasterKey, 1, 15)) = "fatal"

====
